---- MODULE Spec2Model ----
(***************************************************************************)
(* OAuth2Middleware (services/backend/src/oauth2_middleware.cpp): the      *)
(* per-request decision pipeline of doFilter, with the rate limiter, the   *)
(* token extractor, the introspection retry loop, the expiration and the   *)
(* scope validators, the loggers and the error responder.                  *)
(*                                                                         *)
(* Requests are served one after the other.  Every stage of doFilter is    *)
(* one action.  The system clock advances while the process waits: for the *)
(* next request and for the answer of the introspection server.  Strings   *)
(* are TLA+ strings; Len, SubSeq and \o act on them as length(), substr()  *)
(* and operator+ do.                                                       *)
(***************************************************************************)
EXTENDS Integers, Sequences, FiniteSets, TLC

VARIABLES
    now,               \* std::chrono::system_clock::now(), in epoch seconds
    lastRequestTime_,  \* OAuth2Middleware::lastRequestTime_
    requestCount_,     \* OAuth2Middleware::requestCount_
    pc,                \* the stage doFilter is about to run for the current request
    req,               \* the current request: path, peer, method, headers
    token,             \* doFilter's local `token` (std::optional<std::string>)
    attempt,           \* introspectToken's loop counter
    sent,              \* number of client->sendRequest calls made for the current request
    tokenInfo,         \* doFilter's local `tokenInfo` (std::optional<OAuth2TokenInfo>)
    lastResponse,      \* what the last sendRequest call produced, for the current request
    resp,              \* the error response handed to fcb, if any
    fcbCalls,          \* calls of the reject callback fcb for the current request
    fccbCalls,         \* calls of the continuation fccb for the current request
    secLog,            \* SECURITY_EVENT lines written to std::cerr for the current request
    introLog,          \* the last TOKEN_INTROSPECTION line written for the current request
    stages,            \* the stages run for the current request, in order
    validatedAt,       \* the clock value validateTokenExpiration read for the current request
    checked,           \* number of checkRateLimit calls since the window last (re)started
    checkedBy,         \* the same number, for each client address
    inbound,           \* the headers of the current request as it arrived
    fault,             \* the exception raised while the current request was served, if any
    threads,           \* the threads running checkRateLimit at the same time
    admits,            \* direct calls of checkRateLimit that returned true: in the current
                       \* window, and since the clock reached IntervalStart; and the
                       \* paths of those that returned false in the current window
    loggedAtCallback   \* SECURITY_EVENT lines written for the current request when its
                       \* callback was invoked

vars == <<now, lastRequestTime_, requestCount_, pc, req, token, attempt, sent,
          tokenInfo, lastResponse, resp, fcbCalls, fccbCalls, secLog, introLog,
          stages, validatedAt, checked, checkedBy, inbound, fault, threads,
          admits, loggedAtCallback>>

-----------------------------------------------------------------------------
(* Program constants *)

maxRetries_fewer == 3 - 1
maxRetries_more == 3 + 1
maxRetries_ == 3
MAX_REQUESTS_PER_MINUTE == 100
WindowSeconds == 60
BufferSeconds == 300
BearerPrefixLen == 7
MaxTokenLen == 1000
k200OK == 200

(* Bounds of the model *)

StartTime == 1000      \* the clock when the middleware is constructed
MaxStep == 1           \* the clock takes the values StartTime + 60 + (0..MaxStep)
MaxCount == 201        \* no new request is checked once requestCount_ has reached it
NumThreads == 2        \* threads that run doFilter at the same time
MaxConcCalls == 4      \* no concurrent checkRateLimit call starts once that many are counted
MaxLiveCount == 2      \* the same as MaxCount, where termination is checked
MaxPad == 2            \* header remainders are up to MaxPad + 1 long, or MaxTokenLen give
                       \* or take MaxPad

Threads == 1..NumThreads

-----------------------------------------------------------------------------
(* std::optional *)

NullOpt == [has |-> FALSE]
Some(v) == [has |-> TRUE, value |-> v]

(* std::string::find(sub) != npos *)
find(s, sub) ==
    \E i \in 0..(Len(s) - Len(sub)) : SubSeq(s, i + 1, i + Len(sub)) = sub

(* HttpRequest::getHeader: the empty string when the header is absent *)
getHeader(r, name) ==
    IF name \in DOMAIN r.headers THEN r.headers[name] ELSE ""

(* HttpRequest::addHeader: sets (replaces) the header *)
addHeader(r, name, value) ==
    [r EXCEPT !.headers = (name :> value) @@ @]

(* Json::Value::get(key, default) on a parsed object *)
Get(root, key, default) ==
    IF key \in DOMAIN root THEN root[key] ELSE default

-----------------------------------------------------------------------------
(* Inputs *)

Paths == {"/health", "/api/v1/hello", "/api/v1/jobs", "/login"}

AuthHeaders == {"", "Basic abc123", "bearer abc123", "Bearer ", "Bearer abc123"}

NoHeaders == [h \in {} |-> ""]

Peers == {"10.0.0.1", "10.0.0.2"}

Requests ==
    { [path |-> p, peer |-> "10.0.0.1", method |-> "GET",
       headers |-> IF a = "" THEN NoHeaders ELSE ("Authorization" :> a)] :
         p \in Paths, a \in AuthHeaders }

NotJson == [parses |-> FALSE]
Json(root) == [parses |-> TRUE, root |-> root]

Claims(active, scope, exp) ==
    [active |-> active, scope |-> scope, client_id |-> "client-1",
     token_type |-> "access_token", exp |-> exp, iat |-> StartTime - 600,
     sub |-> "user-1"]

Roots ==
    { Claims(TRUE, "redsys.api", StartTime + BufferSeconds - 1),
      Claims(TRUE, "redsys.api", StartTime - BufferSeconds + 1),
      Claims(TRUE, "redsys.api", StartTime - BufferSeconds),
      Claims(TRUE, "redsys.api", StartTime - BufferSeconds - 1),
      Claims(TRUE, "read redsys.api write", StartTime + BufferSeconds - 1),
      Claims(TRUE, "other.scope", StartTime + BufferSeconds - 1),
      Claims(TRUE, "other-redsys.api-extra", StartTime + BufferSeconds - 1),
      Claims(TRUE, "", StartTime + BufferSeconds - 1),
      Claims(FALSE, "redsys.api", StartTime + BufferSeconds - 1),
      Claims(FALSE, "other.scope", StartTime - BufferSeconds - 1),
      Claims(TRUE, "other.scope", StartTime - BufferSeconds - 1),
      [active |-> TRUE, scope |-> "redsys.api", sub |-> "user-1"],
      [active |-> TRUE, scope |-> "redsys.api", exp |-> 0],
      [scope |-> "redsys.api", exp |-> StartTime + BufferSeconds - 1] }

(* What one client->sendRequest call can produce *)
Outcomes ==
    { [kind |-> "transport"], [kind |-> "throw"],
      [kind |-> "response", status |-> 500, body |-> NotJson],
      [kind |-> "response", status |-> k200OK, body |-> NotJson],
      [kind |-> "response", status |-> 201,
       body |-> Json(Claims(TRUE, "redsys.api", StartTime + BufferSeconds - 1))] }
    \cup { [kind |-> "response", status |-> k200OK, body |-> Json(r)] : r \in Roots }

Times == { StartTime + WindowSeconds + k : k \in 0..MaxStep }

(* The values the clock can have after a wait *)
Later == { t \in Times \cup {now} : t >= now }

-----------------------------------------------------------------------------
(* Variant: only the health check is public. *)
isPublicPath_healthOnly(path) == path = "/health"

(* doFilter, lines 30-34 *)
isPublicPath(path) == path = "/health" \/ path = "/api/v1/hello"

(* Variant: the window already ends when 60 seconds have passed. *)
windowExpired_atBoundary == now - lastRequestTime_ >= WindowSeconds

(* checkRateLimit, line 248 *)
windowExpired == now - lastRequestTime_ > WindowSeconds

(* Variant: every path gets the doubled limit. *)
maxRequests_doubled(r) == MAX_REQUESTS_PER_MINUTE * 2

(* checkRateLimit, lines 254-255 *)
maxRequests(r) ==
    IF find(r.path, "/api/v1/") THEN MAX_REQUESTS_PER_MINUTE
    ELSE MAX_REQUESTS_PER_MINUTE * 2

(* Variant: only the first request over the limit is refused. *)
overLimit_firstOnly(count, r) == count = maxRequests(r) + 1

(* Variant: the limit itself is already refused. *)
overLimit_inclusive(count, r) == count >= maxRequests(r)

(* checkRateLimit, line 257: the comparison applied to the incremented count *)
overLimit(count, r) == count > maxRequests(r)

(* Variant: a remainder of the greatest length is refused. *)
extractToken_shorter(r) ==
    LET authHeader == getHeader(r, "Authorization") IN
    IF authHeader = "" THEN NullOpt
    ELSE IF Len(authHeader) < BearerPrefixLen
            \/ SubSeq(authHeader, 1, BearerPrefixLen) # "Bearer " THEN NullOpt
    ELSE LET t == SubSeq(authHeader, BearerPrefixLen + 1, Len(authHeader)) IN
         IF t = "" \/ Len(t) >= MaxTokenLen THEN NullOpt ELSE Some(t)

(* Variant: the scheme prefix is not compared. *)
extractToken_anyScheme(r) ==
    LET authHeader == getHeader(r, "Authorization") IN
    IF authHeader = "" THEN NullOpt
    ELSE IF Len(authHeader) < BearerPrefixLen THEN NullOpt
    ELSE LET t == SubSeq(authHeader, BearerPrefixLen + 1, Len(authHeader)) IN
         IF t = "" \/ Len(t) > MaxTokenLen THEN NullOpt ELSE Some(t)

(* extractToken *)
extractToken(r) ==
    LET authHeader == getHeader(r, "Authorization") IN
    IF authHeader = "" THEN NullOpt
    ELSE IF Len(authHeader) < BearerPrefixLen
            \/ SubSeq(authHeader, 1, BearerPrefixLen) # "Bearer " THEN NullOpt
    ELSE LET t == SubSeq(authHeader, BearerPrefixLen + 1, Len(authHeader)) IN
         IF t = "" \/ Len(t) > MaxTokenLen THEN NullOpt ELSE Some(t)

(* Variant: a token without the active field counts as active. *)
parseTokenInfo_activeByDefault(root, clock) ==
    [active |-> Get(root, "active", TRUE),
     scope |-> Get(root, "scope", ""),
     client_id |-> Get(root, "client_id", ""),
     username |-> Get(root, "username", ""),
     token_type |-> Get(root, "token_type", ""),
     exp |-> Get(root, "exp", 0),
     iat |-> Get(root, "iat", 0),
     sub |-> Get(root, "sub", ""),
     aud |-> Get(root, "aud", ""),
     iss |-> Get(root, "iss", ""),
     introspected_at |-> clock]

(* introspectToken, lines 150-161; clock is the value system_clock::now() returns *)
parseTokenInfo(root, clock) ==
    [active |-> Get(root, "active", FALSE),
     scope |-> Get(root, "scope", ""),
     client_id |-> Get(root, "client_id", ""),
     username |-> Get(root, "username", ""),
     token_type |-> Get(root, "token_type", ""),
     exp |-> Get(root, "exp", 0),
     iat |-> Get(root, "iat", 0),
     sub |-> Get(root, "sub", ""),
     aud |-> Get(root, "aud", ""),
     iss |-> Get(root, "iss", ""),
     introspected_at |-> clock]

(* Variant: every status from 200 to 299 is taken. *)
attemptError_any2xx(o) ==
    IF o.kind = "throw" THEN "Exception: std::exception"
    ELSE IF o.kind = "transport" THEN "Network error or no response"
    ELSE IF o.status \notin 200..299 THEN "HTTP " \o ToString(o.status)
    ELSE IF ~o.body.parses THEN "Invalid JSON response"
    ELSE ""

(* introspectToken, lines 129-147: the reason an attempt is given up, "" if none *)
attemptError(o) ==
    IF o.kind = "throw" THEN "Exception: std::exception"
    ELSE IF o.kind = "transport" THEN "Network error or no response"
    ELSE IF o.status # k200OK THEN "HTTP " \o ToString(o.status)
    ELSE IF ~o.body.parses THEN "Invalid JSON response"
    ELSE ""

(* Variant: only a missing result is refused. *)
introspectionRejected_resultOnly(ti) == ~ti.has

(* doFilter, line 55 *)
introspectionRejected(ti) == ~ti.has \/ ~ti.value.active

(* Variant: a failed introspection gets a description of its own. *)
invalidTokenDescription_split(ti) ==
    IF ti.has THEN "Token is invalid or expired" ELSE "Token introspection failed"

(* doFilter, line 57: the description of the invalid_token response *)
invalidTokenDescription(ti) == "Token is invalid or expired"

(* Variant: a token without expiration never expires. *)
validateTokenExpiration_zeroIsForever(ti) ==
    ti.exp = 0 \/ now < ti.exp + BufferSeconds

(* Variant: the boundary instant still counts as valid. *)
validateTokenExpiration_inclusive(ti) == now <= ti.exp + BufferSeconds

(* validateTokenExpiration *)
validateTokenExpiration(ti) == now < ti.exp + BufferSeconds

(* Variant: an empty scope is taken as unrestricted. *)
validateRequiredScopes_emptyPasses(ti, requiredScope) ==
    IF ti.scope = "" THEN TRUE ELSE find(ti.scope, requiredScope)

(* validateRequiredScopes *)
validateRequiredScopes(ti, requiredScope) ==
    IF ti.scope = "" THEN FALSE ELSE find(ti.scope, requiredScope)

(* Variant: the expiration of the token is handed downstream as well. *)
injectHeaders_withExp(r, ti) ==
    addHeader(addHeader(addHeader(addHeader(addHeader(r,
        "X-User-ID", ti.sub),
        "X-User-Scope", ti.scope),
        "X-Client-ID", ti.client_id),
        "X-Token-Type", ti.token_type),
        "X-Token-Exp", ToString(ti.exp))

(* doFilter, lines 80-83 *)
injectHeaders(r, ti) ==
    addHeader(addHeader(addHeader(addHeader(r,
        "X-User-ID", ti.sub),
        "X-User-Scope", ti.scope),
        "X-Client-ID", ti.client_id),
        "X-Token-Type", ti.token_type)

(* Variant: the Authorization header is written to the log as well. *)
SecurityEvent_withAuthorization(event, r, details, clock) ==
    [event |-> event, ip |-> r.peer, path |-> r.path, method |-> r.method,
     userAgent |-> getHeader(r, "User-Agent"),
     details |-> details \o " | Authorization: " \o getHeader(r, "Authorization"),
     time |-> clock]

(* logSecurityEvent: the line written to std::cerr at time clock *)
SecurityEvent(event, r, details, clock) ==
    [event |-> event, ip |-> r.peer, path |-> r.path, method |-> r.method,
     userAgent |-> getHeader(r, "User-Agent"), details |-> details, time |-> clock]

(* logTokenIntrospection: the line written to std::cerr at time clock *)
TokenIntrospection(success, error, clock) ==
    [success |-> success, error |-> IF ~success /\ error # "" THEN error ELSE "",
     time |-> clock]

(* Variant: the body carries no timestamp. *)
createErrorResponse_noTimestamp(statusCode, error, description, clock) ==
    [status |-> statusCode, contentType |-> "application/json",
     body |-> [error |-> error, error_description |-> description]]

(* createErrorResponse, called at time clock *)
createErrorResponse(statusCode, error, description, clock) ==
    [status |-> statusCode, contentType |-> "application/json",
     body |-> [error |-> error, error_description |-> description,
               timestamp |-> ToString(clock)]]

-----------------------------------------------------------------------------
Init ==
    /\ now = StartTime
    /\ lastRequestTime_ = StartTime
    /\ requestCount_ = 0
    /\ pc = "idle"
    /\ req = [path |-> "", peer |-> "", method |-> "", headers |-> NoHeaders]
    /\ token = NullOpt
    /\ attempt = 0
    /\ sent = 0
    /\ tokenInfo = NullOpt
    /\ lastResponse = NullOpt
    /\ resp = NullOpt
    /\ fcbCalls = 0
    /\ fccbCalls = 0
    /\ secLog = <<>>
    /\ introLog = NullOpt
    /\ stages = <<>>
    /\ validatedAt = NullOpt
    /\ checked = 0
    /\ checkedBy = [p \in Peers |-> 0]
    /\ inbound = NoHeaders
    /\ fault = "none"
    /\ admits = [window |-> 0, recent |-> 0, refused |-> {}]
    /\ loggedAtCallback = 0
    /\ threads = [th \in Threads |-> [pc |-> "idle", tmp |-> 0, admitted |-> TRUE]]

(* Variant: the rejection is not logged. *)
Reject_silent(clock, logged, event, details, statusCode, error, description) ==
    /\ secLog' = logged
    /\ resp' = Some(createErrorResponse(statusCode, error, description, clock))
    /\ loggedAtCallback' = Len(logged)
    /\ fcbCalls' = fcbCalls + 1
    /\ pc' = "done"

(* Variant: the response is built but never handed to fcb. *)
Reject_noCallback(clock, logged, event, details, statusCode, error, description) ==
    /\ secLog' = Append(logged, SecurityEvent(event, req, details, clock))
    /\ resp' = Some(createErrorResponse(statusCode, error, description, clock))
    /\ fcbCalls' = fcbCalls
    /\ loggedAtCallback' = loggedAtCallback
    /\ pc' = "done"

(* A rejection: logSecurityEvent, createErrorResponse, fcb(resp), return.
   `logged` is what the stage had already written to the security log, clock
   the value system_clock::now() returns. *)
Reject(clock, logged, event, details, statusCode, error, description) ==
    /\ secLog' = Append(logged, SecurityEvent(event, req, details, clock))
    /\ resp' = Some(createErrorResponse(statusCode, error, description, clock))
    /\ loggedAtCallback' = Len(logged) + 1
    /\ fcbCalls' = fcbCalls + 1
    /\ pc' = "done"

(* Variant: the result of the last introspection outlives the request. *)
PathBypass_keepsResult(r, t) ==
    /\ pc \in {"idle", "done", "faulted"}
    /\ requestCount_ < MaxCount
    /\ now' = t
    /\ req' = r
    /\ inbound' = r.headers
    /\ loggedAtCallback' = 0
    /\ fault' = "none"
    /\ token' = NullOpt
    /\ attempt' = 0
    /\ sent' = 0
    /\ tokenInfo' = tokenInfo
    /\ lastResponse' = lastResponse
    /\ resp' = NullOpt
    /\ fcbCalls' = 0
    /\ secLog' = <<>>
    /\ introLog' = NullOpt
    /\ stages' = <<"PathBypass">>
    /\ validatedAt' = NullOpt
    /\ IF isPublicPath(r.path)
       THEN /\ fccbCalls' = 1
            /\ pc' = "done"
       ELSE /\ fccbCalls' = 0
            /\ pc' = "RateCheck"
    /\ UNCHANGED <<lastRequestTime_, requestCount_, checked, checkedBy, threads, admits>>

(* doFilter is called with request r at time t: lines 27-34. *)
PathBypass(r, t) ==
    /\ pc \in {"idle", "done", "faulted"}
    /\ requestCount_ < MaxCount
    /\ now' = t
    /\ req' = r
    /\ inbound' = r.headers
    /\ loggedAtCallback' = 0
    /\ fault' = "none"
    /\ token' = NullOpt
    /\ attempt' = 0
    /\ sent' = 0
    /\ tokenInfo' = NullOpt
    /\ lastResponse' = NullOpt
    /\ resp' = NullOpt
    /\ fcbCalls' = 0
    /\ secLog' = <<>>
    /\ introLog' = NullOpt
    /\ stages' = <<"PathBypass">>
    /\ validatedAt' = NullOpt
    /\ IF isPublicPath(r.path)
       THEN /\ fccbCalls' = 1
            /\ pc' = "done"
       ELSE /\ fccbCalls' = 0
            /\ pc' = "RateCheck"
    /\ UNCHANGED <<lastRequestTime_, requestCount_, checked, checkedBy, threads, admits>>

(* doFilter lines 36-42 with checkRateLimit, lines 242-263. *)
RateCheck ==
    /\ pc = "RateCheck"
    /\ stages' = Append(stages, "RateCheck")
    /\ LET count == (IF windowExpired THEN 0 ELSE requestCount_) + 1
           logged == IF overLimit(count, req)
                     THEN Append(secLog, SecurityEvent("rate_limit_exceeded", req,
                                   "Rate limit exceeded for IP: " \o req.peer, now))
                     ELSE secLog
       IN /\ requestCount_' = count
          /\ lastRequestTime_' = IF windowExpired THEN now ELSE lastRequestTime_
          /\ checked' = IF now - lastRequestTime_ > WindowSeconds THEN 1 ELSE checked + 1
          /\ checkedBy' = IF now - lastRequestTime_ > WindowSeconds
                          THEN [p \in Peers |-> IF p = req.peer THEN 1 ELSE 0]
                          ELSE [checkedBy EXCEPT ![req.peer] = @ + 1]
          /\ IF overLimit(count, req)
             THEN Reject(now, logged, "rate_limit_exceeded", "Too many requests",
                         429, "rate_limit_exceeded", "Too many requests")
             ELSE /\ pc' = "Extract"
                  /\ UNCHANGED <<secLog, resp, fcbCalls, loggedAtCallback>>
    /\ UNCHANGED <<now, req, token, attempt, sent, tokenInfo, lastResponse,
                   fccbCalls, introLog, validatedAt, inbound, fault, threads, admits>>

(* Variant: the rejection for a missing token does not return. *)
Extract_noReturn ==
    /\ pc = "Extract"
    /\ stages' = Append(stages, "Extract")
    /\ token' = extractToken(req)
    /\ IF ~extractToken(req).has
       THEN /\ secLog' = Append(secLog, SecurityEvent("missing_token", req,
                                   "No valid Authorization header", now))
            /\ resp' = Some(createErrorResponse(401, "missing_token",
                                   "Authorization header required", now))
            /\ loggedAtCallback' = Len(secLog) + 1
            /\ fcbCalls' = fcbCalls + 1
       ELSE UNCHANGED <<secLog, resp, fcbCalls, loggedAtCallback>>
    /\ pc' = "Introspect"
    /\ UNCHANGED <<now, lastRequestTime_, requestCount_, checked, req, attempt, sent,
                   tokenInfo, lastResponse, fccbCalls, introLog, validatedAt,
                   checkedBy, inbound, fault, threads, admits>>

(* doFilter lines 44-51 with extractToken. *)
Extract ==
    /\ pc = "Extract"
    /\ stages' = Append(stages, "Extract")
    /\ token' = extractToken(req)
    /\ IF ~extractToken(req).has
       THEN Reject(now, secLog, "missing_token", "No valid Authorization header",
                   401, "missing_token", "Authorization header required")
       ELSE /\ pc' = "Introspect"
            /\ UNCHANGED <<secLog, resp, fcbCalls, loggedAtCallback>>
    /\ UNCHANGED <<now, lastRequestTime_, requestCount_, checked, req, attempt, sent,
                   tokenInfo, lastResponse, fccbCalls, introLog, validatedAt,
                   checkedBy, inbound, fault, threads, admits>>

(* introspectToken returns `result` to doFilter at time clock: lines 54-60. *)
IntrospectReturn(result, clock) ==
    /\ tokenInfo' = result
    /\ IF introspectionRejected(result)
       THEN Reject(clock, secLog, "invalid_token", "Token introspection failed or token inactive",
                   401, "invalid_token", invalidTokenDescription(result))
       ELSE /\ pc' = "ExpirationCheck"
            /\ UNCHANGED <<secLog, resp, fcbCalls, loggedAtCallback>>

(* One iteration of the loop of introspectToken, lines 112-170: sendRequest
   comes back at time t with outcome o.  The last iteration returns to
   doFilter. *)
Introspect(o, t) ==
    /\ pc = "Introspect"
    /\ attempt < maxRetries_
    /\ now' = t
    /\ sent' = sent + 1
    /\ lastResponse' = Some(o)
    /\ stages' = IF attempt = 0 THEN Append(stages, "Introspect") ELSE stages
    /\ introLog' = Some(TokenIntrospection(attemptError(o) = "", attemptError(o), t))
    /\ IF attemptError(o) = ""
       THEN /\ attempt' = attempt
            /\ IntrospectReturn(Some(parseTokenInfo(o.body.root, t)), t)
       ELSE IF o.kind = "throw" /\ attempt = maxRetries_ - 1
       THEN /\ attempt' = attempt
            /\ IntrospectReturn(NullOpt, t)
       ELSE /\ attempt' = attempt + 1
            /\ IF attempt + 1 < maxRetries_
               THEN UNCHANGED <<tokenInfo, pc, secLog, resp, fcbCalls, loggedAtCallback>>
               ELSE IntrospectReturn(NullOpt, t)
    /\ UNCHANGED <<lastRequestTime_, requestCount_, checked, req, token, fccbCalls,
                   validatedAt, checkedBy, inbound, fault, threads, admits>>

(* Variant: the rejection of an expired token does not return. *)
ExpirationCheck_noReturn ==
    /\ pc = "ExpirationCheck"
    /\ stages' = Append(stages, "ExpirationCheck")
    /\ validatedAt' = Some(now)
    /\ IF ~validateTokenExpiration(tokenInfo.value)
       THEN /\ secLog' = Append(secLog, SecurityEvent("expired_token", req,
                                           "Token has expired", now))
            /\ resp' = Some(createErrorResponse(401, "invalid_token",
                                                "Token has expired", now))
            /\ loggedAtCallback' = Len(secLog) + 1
            /\ fcbCalls' = fcbCalls + 1
            /\ pc' = "ScopeCheck"
       ELSE /\ pc' = "ScopeCheck"
            /\ UNCHANGED <<secLog, resp, fcbCalls, loggedAtCallback>>
    /\ UNCHANGED <<now, lastRequestTime_, requestCount_, checked, req, token, attempt,
                   sent, tokenInfo, lastResponse, fccbCalls, introLog,
                   checkedBy, inbound, fault, threads, admits>>

(* doFilter lines 62-68 with validateTokenExpiration. *)
ExpirationCheck ==
    /\ pc = "ExpirationCheck"
    /\ stages' = Append(stages, "ExpirationCheck")
    /\ validatedAt' = Some(now)
    /\ IF ~validateTokenExpiration(tokenInfo.value)
       THEN Reject(now, secLog, "expired_token", "Token has expired",
                   401, "invalid_token", "Token has expired")
       ELSE /\ pc' = "ScopeCheck"
            /\ UNCHANGED <<secLog, resp, fcbCalls, loggedAtCallback>>
    /\ UNCHANGED <<now, lastRequestTime_, requestCount_, checked, req, token, attempt,
                   sent, tokenInfo, lastResponse, fccbCalls, introLog,
                   checkedBy, inbound, fault, threads, admits>>

(* doFilter lines 70-76 with validateRequiredScopes. *)
ScopeCheck ==
    /\ pc = "ScopeCheck"
    /\ stages' = Append(stages, "ScopeCheck")
    /\ IF ~validateRequiredScopes(tokenInfo.value, "redsys.api")
       THEN Reject(now, secLog, "insufficient_scope", "Token lacks required scope: redsys.api",
                   403, "insufficient_scope", "Token lacks required scope")
       ELSE /\ pc' = "Admit"
            /\ UNCHANGED <<secLog, resp, fcbCalls, loggedAtCallback>>
    /\ UNCHANGED <<now, lastRequestTime_, requestCount_, checked, req, token, attempt,
                   sent, tokenInfo, lastResponse, fccbCalls, introLog, validatedAt,
                   checkedBy, inbound, fault, threads, admits>>

(* Variant: admitting a request counts it a second time. *)
Admit_countsAgain ==
    /\ pc = "Admit"
    /\ stages' = Append(stages, "Admit")
    /\ req' = injectHeaders(req, tokenInfo.value)
    /\ secLog' = Append(secLog, SecurityEvent("authentication_success", req',
                     "User: " \o tokenInfo.value.sub \o ", Client: "
                       \o tokenInfo.value.client_id, now))
    /\ loggedAtCallback' = Len(secLog) + 1
    /\ fccbCalls' = fccbCalls + 1
    /\ pc' = "done"
    /\ requestCount_' = requestCount_ + 1
    /\ UNCHANGED <<now, lastRequestTime_, checked, token, attempt, sent,
                   tokenInfo, lastResponse, resp, fcbCalls, introLog, validatedAt,
                   checkedBy, inbound, fault, threads, admits>>

(* doFilter lines 78-89. *)
Admit ==
    /\ pc = "Admit"
    /\ stages' = Append(stages, "Admit")
    /\ req' = injectHeaders(req, tokenInfo.value)
    /\ secLog' = Append(secLog, SecurityEvent("authentication_success", req',
                     "User: " \o tokenInfo.value.sub \o ", Client: "
                       \o tokenInfo.value.client_id, now))
    /\ loggedAtCallback' = Len(secLog) + 1
    /\ fccbCalls' = fccbCalls + 1
    /\ pc' = "done"
    /\ UNCHANGED <<now, lastRequestTime_, requestCount_, checked, token, attempt, sent,
                   tokenInfo, lastResponse, resp, fcbCalls, introLog, validatedAt,
                   checkedBy, inbound, fault, threads, admits>>

Next ==
    \/ \E r \in Requests, t \in Later : PathBypass(r, t)
    \/ RateCheck
    \/ Extract
    \/ \E o \in Outcomes, t \in Later : Introspect(o, t)
    \/ ExpirationCheck
    \/ ScopeCheck
    \/ Admit

Spec == Init /\ [][Next]_vars

-----------------------------------------------------------------------------
(* checkRateLimit run by several threads at once.  requestCount_ is a plain
   int and checkRateLimit takes no lock, so of two threads in lines 248-257
   each reads and writes the field on its own: the increment of line 257 is a
   read of the field followed by a write of the value read plus one. *)

ConcRequest ==
    [path |-> "/api/v1/jobs", peer |-> "10.0.0.1", method |-> "GET",
     headers |-> NoHeaders]

(* Thread th enters checkRateLimit: lines 243-251. *)
ConcEnter(th) ==
    /\ threads[th].pc = "idle"
    /\ checked < MaxConcCalls
    /\ threads' = [threads EXCEPT ![th].pc = "entered"]
    /\ IF windowExpired
       THEN /\ requestCount_' = 0
            /\ lastRequestTime_' = now
            /\ checked' = 0
       ELSE UNCHANGED <<requestCount_, lastRequestTime_, checked>>
    /\ UNCHANGED <<now, pc, req, token, attempt, sent, tokenInfo, lastResponse, resp,
                   fcbCalls, fccbCalls, secLog, introLog, stages, validatedAt,
                   checkedBy, inbound, fault, admits, loggedAtCallback>>

(* Line 257, first half: thread th reads requestCount_. *)
ConcLoad(th) ==
    /\ threads[th].pc = "entered"
    /\ threads' = [threads EXCEPT ![th].pc = "loaded", ![th].tmp = requestCount_]
    /\ UNCHANGED <<now, lastRequestTime_, requestCount_, pc, req, token, attempt, sent,
                   tokenInfo, lastResponse, resp, fcbCalls, fccbCalls, secLog, introLog,
                   stages, validatedAt, checked, checkedBy, inbound, fault, admits, loggedAtCallback>>

(* Line 257, second half, to line 262: thread th writes the incremented
   value, compares it with the limit and returns. *)
ConcStore(th) ==
    /\ threads[th].pc = "loaded"
    /\ requestCount_' = threads[th].tmp + 1
    /\ checked' = checked + 1
    /\ threads' = [threads EXCEPT ![th].pc = "idle",
                                  ![th].admitted = ~overLimit(threads[th].tmp + 1, ConcRequest)]
    /\ UNCHANGED <<now, lastRequestTime_, pc, req, token, attempt, sent, tokenInfo,
                   lastResponse, resp, fcbCalls, fccbCalls, secLog, introLog, stages,
                   validatedAt, checkedBy, inbound, fault, admits, loggedAtCallback>>

NextConc ==
    \/ \E th \in Threads : ConcEnter(th)
    \/ \E th \in Threads : ConcLoad(th)
    \/ \E th \in Threads : ConcStore(th)

SpecConc == Init /\ [][NextConc]_vars

-----------------------------------------------------------------------------
(* Exceptions.  doFilter (lines 27-90) has no try block: an exception raised
   by one of its statements, or by a function it calls, leaves doFilter
   before fcb or fccb is reached.  introspectToken catches std::exception
   inside its loop (lines 166-169), the calls of logTokenIntrospection at
   lines 130, 135, 145 and 163 included. *)

(* The stage doFilter is about to run calls logSecurityEvent. *)
logsSecurityEvent ==
    \/ pc = "RateCheck"
          /\ overLimit((IF windowExpired THEN 0 ELSE requestCount_) + 1, req)
    \/ pc = "Extract" /\ ~extractToken(req).has
    \/ pc = "ExpirationCheck" /\ ~validateTokenExpiration(tokenInfo.value)
    \/ pc = "ScopeCheck" /\ ~validateRequiredScopes(tokenInfo.value, "redsys.api")
    \/ pc = "Admit"

(* An exception is raised in the stage doFilter is about to run and leaves
   doFilter: by the logSecurityEvent call of the stage (kind "log"; in
   checkRateLimit that call, line 258, comes after the count was updated), or
   by another statement of the stage, before it changed anything (kind
   "internal"). *)
EscapingException(kind) ==
    /\ pc \in {"RateCheck", "Extract", "ExpirationCheck", "ScopeCheck", "Admit"}
    /\ kind = "log" => logsSecurityEvent
    /\ IF pc = "RateCheck" /\ kind = "log"
       THEN /\ requestCount_' = (IF windowExpired THEN 0 ELSE requestCount_) + 1
            /\ lastRequestTime_' = IF windowExpired THEN now ELSE lastRequestTime_
            /\ checked' = IF windowExpired THEN 1 ELSE checked + 1
            /\ checkedBy' = IF windowExpired
                            THEN [p \in Peers |-> IF p = req.peer THEN 1 ELSE 0]
                            ELSE [checkedBy EXCEPT ![req.peer] = @ + 1]
       ELSE UNCHANGED <<requestCount_, lastRequestTime_, checked, checkedBy>>
    /\ stages' = Append(stages, pc)
    /\ fault' = kind
    /\ pc' = "faulted"
    /\ UNCHANGED <<now, req, token, attempt, sent, tokenInfo, lastResponse, resp,
                   fcbCalls, fccbCalls, secLog, introLog, validatedAt, inbound, threads,
                   admits, loggedAtCallback>>

(* One iteration of the loop of introspectToken in which the call of
   logTokenIntrospection throws a std::exception.  After sendRequest returned
   (lines 130, 135, 145, 163) the exception is caught at line 166, the handler
   logs it and the loop goes on or, in the last iteration, ends.  Thrown by
   the handler's own call (line 167) it leaves introspectToken and doFilter. *)
LogTokenIntrospectionFault(o, t) ==
    /\ pc = "Introspect"
    /\ attempt < maxRetries_
    /\ now' = t
    /\ sent' = sent + 1
    /\ lastResponse' = Some(o)
    /\ stages' = IF attempt = 0 THEN Append(stages, "Introspect") ELSE stages
    /\ fault' = "log"
    /\ IF o.kind = "throw"
       THEN /\ pc' = "faulted"
            /\ UNCHANGED <<attempt, introLog, tokenInfo, secLog, resp, fcbCalls,
                           loggedAtCallback>>
       ELSE /\ introLog' = Some(TokenIntrospection(FALSE, "Exception: std::exception", t))
            /\ IF attempt = maxRetries_ - 1
               THEN /\ attempt' = attempt
                    /\ IntrospectReturn(NullOpt, t)
               ELSE /\ attempt' = attempt + 1
                    /\ UNCHANGED <<tokenInfo, pc, secLog, resp, fcbCalls, loggedAtCallback>>
    /\ UNCHANGED <<lastRequestTime_, requestCount_, checked, req, token, fccbCalls,
                   validatedAt, checkedBy, inbound, threads, admits>>

NextFault ==
    \/ Next
    \/ \E kind \in {"log", "internal"} : EscapingException(kind)
    \/ \E o \in Outcomes, t \in Later : LogTokenIntrospectionFault(o, t)

SpecFault == Init /\ [][NextFault]_vars

-----------------------------------------------------------------------------
(* Progress.  The statements of doFilter run to completion once the thread
   has reached them: the stages that do not wait are weakly fair.  The
   iteration of introspectToken ends when client->sendRequest(req) returns
   (line 127).  The call is made without a timeout: requestTimeout_ is
   assigned at line 21 and read nowhere.  When the call returns is therefore
   up to the introspection server, and no fairness is stated for Introspect. *)

(* doFilter is called while few requests have been counted. *)
Arrive(r, t) ==
    /\ requestCount_ < MaxLiveCount
    /\ PathBypass(r, t)

NextLive ==
    \/ \E r \in Requests, t \in Later : Arrive(r, t)
    \/ RateCheck
    \/ Extract
    \/ \E o \in Outcomes, t \in Later : Introspect(o, t)
    \/ ExpirationCheck
    \/ ScopeCheck
    \/ Admit

SpecLive ==
    /\ Init /\ [][NextLive]_vars
    /\ WF_vars(RateCheck) /\ WF_vars(Extract) /\ WF_vars(ExpirationCheck)
    /\ WF_vars(ScopeCheck) /\ WF_vars(Admit)

-----------------------------------------------------------------------------
(* The rate limiter alone: requests without a token, from two client
   addresses and to paths that hold /api/v1/ at their start or further in,
   arriving within one window.  Each is checked and then refused for its
   missing token. *)

LimiterRequests ==
    { [path |-> x[1], peer |-> x[2], method |-> "GET", headers |-> NoHeaders] :
        x \in { <<"/api/v1/jobs", "10.0.0.1">>, <<"/api/v1/jobs", "10.0.0.2">>,
                <<"/internal/api/v1/jobs", "10.0.0.1">> } }

NextLimiter ==
    \/ \E r \in LimiterRequests : PathBypass(r, now)
    \/ RateCheck
    \/ Extract

SpecLimiter == Init /\ [][NextLimiter]_vars

-----------------------------------------------------------------------------
(* checkRateLimit called directly, one call after the other, for requests
   of the path class of /api/v1/, while the clock goes on between the calls.
   admits.window counts the calls that returned true since the count was last
   reset, admits.recent those made in the 60 seconds that begin at
   IntervalStart; admits.refused holds the paths of the calls that returned
   false since the count was last reset. *)

IntervalStart == StartTime + WindowSeconds

WindowRequests ==
    { [path |-> "/api/v1/jobs", peer |-> "10.0.0.1", method |-> "GET",
       headers |-> NoHeaders] }

(* The clock goes on to t while no call is under way. *)
Wait(t) ==
    /\ pc = "idle"
    /\ t > now
    /\ now' = t
    /\ UNCHANGED <<lastRequestTime_, requestCount_, pc, req, token, attempt, sent,
                   tokenInfo, lastResponse, resp, fcbCalls, fccbCalls, secLog, introLog,
                   stages, validatedAt, checked, checkedBy, inbound, fault, threads,
                   admits, loggedAtCallback>>

(* checkRateLimit(r), lines 242-263, as one step. *)
LimiterCall(r) ==
    /\ pc = "idle"
    /\ requestCount_ < MaxCount
    /\ now <= IntervalStart + WindowSeconds
    /\ req' = r
    /\ LET count == (IF windowExpired THEN 0 ELSE requestCount_) + 1
           admitted == ~overLimit(count, r)
       IN /\ requestCount_' = count
          /\ lastRequestTime_' = IF windowExpired THEN now ELSE lastRequestTime_
          /\ checked' = IF now - lastRequestTime_ > WindowSeconds THEN 1 ELSE checked + 1
          /\ checkedBy' = IF now - lastRequestTime_ > WindowSeconds
                          THEN [p \in Peers |-> IF p = r.peer THEN 1 ELSE 0]
                          ELSE [checkedBy EXCEPT ![r.peer] = @ + 1]
          /\ secLog' = IF admitted THEN <<>>
                       ELSE <<SecurityEvent("rate_limit_exceeded", r,
                                   "Rate limit exceeded for IP: " \o r.peer, now)>>
          /\ admits' =
                [window |-> (IF now - lastRequestTime_ > WindowSeconds THEN 0
                             ELSE admits.window) + (IF admitted THEN 1 ELSE 0),
                 recent |-> admits.recent
                              + (IF admitted /\ now >= IntervalStart THEN 1 ELSE 0),
                 refused |-> (IF now - lastRequestTime_ > WindowSeconds THEN {}
                              ELSE admits.refused)
                               \cup (IF admitted THEN {} ELSE {r.path})]
    /\ UNCHANGED <<now, pc, token, attempt, sent, tokenInfo, lastResponse, resp,
                   fcbCalls, fccbCalls, introLog, stages, validatedAt, inbound, fault,
                   threads, loggedAtCallback>>

NextWindow ==
    \/ \E t \in Times : Wait(t)
    \/ \E r \in WindowRequests : LimiterCall(r)

SpecWindow == Init /\ [][NextWindow]_vars

-----------------------------------------------------------------------------
(* checkRateLimit called directly, one call after the other, for requests
   of both path classes; between the calls the clock stands still or goes
   on to a time at which the next call restarts the window. *)

ClassRequests ==
    { [path |-> p, peer |-> "10.0.0.1", method |-> "GET", headers |-> NoHeaders] :
        p \in {"/api/v1/jobs", "/login"} }

(* The clock goes on to t, more than 60 seconds after the window start. *)
WaitOut(t) ==
    /\ t - lastRequestTime_ > WindowSeconds
    /\ Wait(t)

NextClasses ==
    \/ \E t \in Times : WaitOut(t)
    \/ \E r \in ClassRequests : LimiterCall(r)

SpecClasses == Init /\ [][NextClasses]_vars

-----------------------------------------------------------------------------
(* extractToken called directly on requests whose Authorization header is
   absent, empty, or a scheme prefix followed by a remainder of a length near
   0 or near MaxTokenLen. *)

RECURSIVE Fill(_, _)
(* The string of n copies of the character c. *)
Fill(c, n) ==
    IF n = 0 THEN ""
    ELSE LET half == Fill(c, n \div 2)
         IN IF n % 2 = 0 THEN half \o half ELSE half \o half \o c

HeaderPrefixes ==
    {"Bearer ", "bearer ", "BEARER ", "Bearer", "Bearer  ", "Basic ", "", " Bearer "}

RemainderLengths ==
    (0..(MaxPad + 1)) \cup ((MaxTokenLen - MaxPad)..(MaxTokenLen + MaxPad))

HeaderInputs ==
    { pre \o Fill(c, n) : pre \in HeaderPrefixes, c \in {"a", "."},
                           n \in RemainderLengths }

ExtractRequests ==
    { [path |-> "/login", peer |-> "10.0.0.1", method |-> "GET", headers |-> hs] :
        hs \in {NoHeaders} \cup { ("Authorization" :> h) : h \in HeaderInputs } }

(* extractToken(r), lines 92-109. *)
ExtractTokenCall(r) ==
    /\ pc = "idle"
    /\ req' = r
    /\ inbound' = r.headers
    /\ token' = extractToken(r)
    /\ UNCHANGED <<now, lastRequestTime_, requestCount_, pc, attempt, sent, tokenInfo,
                   lastResponse, resp, fcbCalls, fccbCalls, secLog, introLog, stages,
                   validatedAt, checked, checkedBy, fault, threads, admits,
                   loggedAtCallback>>

NextExtract == \E r \in ExtractRequests : ExtractTokenCall(r)

SpecExtract == Init /\ [][NextExtract]_vars

(* Requests that arrive with identity headers written by the client: to the
   two public paths, of which /api/v1/hello has a handler that reads
   X-User-ID and X-User-Scope, and to a protected path, with a bearer
   token. *)

ClientIdentity ==
    ("X-User-ID" :> "admin") @@ ("X-User-Scope" :> "redsys.admin")
      @@ ("X-Client-ID" :> "console") @@ ("X-Token-Type" :> "root")

IdentityRequests ==
    { [path |-> p, peer |-> "10.0.0.2", method |-> "GET",
       headers |-> ("Authorization" :> "Bearer abc123") @@ ClientIdentity] :
         p \in {"/health", "/api/v1/hello", "/api/v1/jobs"} }

NextIdentity ==
    \/ \E r \in IdentityRequests, t \in Later : Arrive(r, t)
    \/ RateCheck
    \/ Extract
    \/ \E o \in Outcomes, t \in Later : Introspect(o, t)
    \/ ExpirationCheck
    \/ ScopeCheck
    \/ Admit

SpecIdentity == Init /\ [][NextIdentity]_vars

-----------------------------------------------------------------------------
TypeOK ==
    /\ requestCount_ \in 0..MaxCount
    /\ attempt \in 0..maxRetries_
    /\ fcbCalls \in 0..1
    /\ fccbCalls \in 0..1
    /\ fault \in {"none", "log", "internal"}
    /\ \A p \in Peers : checkedBy[p] \in 0..MaxCount

-----------------------------------------------------------------------------
(* Vocabulary of the properties, stated on what a caller and the
   introspection server can observe. *)

PublicPaths == {"/health", "/api/v1/hello"}

ClassLimit(path) == IF path \in {"/api/v1/hello", "/api/v1/jobs"} THEN 100 ELSE 200

AuthOf(r) == IF "Authorization" \in DOMAIN r.headers THEN r.headers["Authorization"] ELSE ""

BearerForm(h) == Len(h) > 7 /\ Len(h) <= 1007 /\ SubSeq(h, 1, 7) = "Bearer "

Occurs(s, w) == \E i \in 1..Len(s) : \E j \in i..Len(s) : SubSeq(s, i, j) = w

HasScopeToken(s, w) ==
    \E i \in 1..Len(s) : \E j \in i..Len(s) :
        /\ SubSeq(s, i, j) = w
        /\ (i = 1 \/ SubSeq(s, i - 1, i - 1) = " ")
        /\ (j = Len(s) \/ SubSeq(s, j + 1, j + 1) = " ")

Forwarded == pc = "done" /\ fccbCalls = 1 /\ fcbCalls = 0 /\ ~resp.has

Rejected(status, error) ==
    /\ pc = "done" /\ fcbCalls = 1 /\ fccbCalls = 0
    /\ resp.has /\ resp.value.status = status /\ resp.value.body.error = error

LastOk ==
    /\ lastResponse.has /\ lastResponse.value.kind = "response"
    /\ lastResponse.value.status = 200 /\ lastResponse.value.body.parses

LastFailed == lastResponse.has /\ ~LastOk

LastRoot == lastResponse.value.body.root
RootActive == "active" \in DOMAIN LastRoot /\ LastRoot.active
RootExp == IF "exp" \in DOMAIN LastRoot THEN LastRoot.exp ELSE 0
RootScope == IF "scope" \in DOMAIN LastRoot THEN LastRoot.scope ELSE ""

Unexpired == validatedAt.has /\ validatedAt.value < RootExp + 300

-----------------------------------------------------------------------------
\* C1: for a request to a non-public path the continuation is invoked only if
\* the rate limiter admitted the request, a bearer token was extracted, the
\* last introspection attempt returned active=true, the clock read by the
\* expiration check was before exp + 300 and the scope check for redsys.api
\* passed; otherwise the request is not forwarded.
C1_ForwardedOnlyIfAllPassed ==
    (fccbCalls > 0 /\ req.path \notin PublicPaths) =>
        /\ checked <= ClassLimit(req.path)
        /\ BearerForm(AuthOf(req))
        /\ LastOk /\ RootActive
        /\ Unexpired
        /\ Occurs(RootScope, "redsys.api")

C1_Witness ==
    /\ Forwarded /\ req.path = "/api/v1/jobs" /\ sent = 2
    /\ RootScope = "read redsys.api write"

\* C2: a request to /health or /api/v1/hello has the continuation invoked and
\* no error response sent, whatever its Authorization header and whatever the
\* state of the rate limiter.
C2_BypassAlwaysForwards ==
    (req.path \in PublicPaths) =>
        /\ Forwarded
        /\ sent = 0

C2_Witness ==
    /\ Forwarded /\ req.path = "/api/v1/hello"
    /\ AuthOf(req) = "Basic abc123"
    /\ requestCount_ > ClassLimit(req.path)

\* C3: a non-public request admitted by the rate limiter whose Authorization
\* header is absent or not of the form `Bearer <token>` ends with 401
\* missing_token, and no introspection call is made for it.
C3_MissingToken ==
    (req.path \notin PublicPaths /\ ~BearerForm(AuthOf(req))) =>
        /\ sent = 0
        /\ (pc = "done" /\ checked <= ClassLimit(req.path))
              => Rejected(401, "missing_token")

C3_Witness ==
    /\ Rejected(401, "missing_token") /\ AuthOf(req) = "Basic abc123" /\ sent = 0

\* C4: an introspection response with active=false ends the request with 401
\* invalid_token whatever its other claims; the expiration and the scope check
\* are not run for it.
C4_InactiveRejected ==
    (LastOk /\ ~RootActive) =>
        /\ Rejected(401, "invalid_token")
        /\ ~validatedAt.has
        /\ stages = <<"PathBypass", "RateCheck", "Extract", "Introspect">>

C4_Witness ==
    /\ Rejected(401, "invalid_token") /\ LastOk
    /\ "active" \in DOMAIN LastRoot /\ ~LastRoot.active
    /\ RootScope = "redsys.api" /\ RootExp > now

\* C5: the expiration check passes iff the clock it reads is strictly before
\* exp + 300: otherwise (exp = now - 301, and exp + 300 = now) the request
\* ends with 401 invalid_token; with exp = now + 299 it goes on.
C5_ExpirationStrict ==
    validatedAt.has =>
        IF validatedAt.value < RootExp + 300
        THEN /\ pc \in {"ScopeCheck", "Admit", "done"}
             /\ ~Rejected(401, "invalid_token")
        ELSE /\ Rejected(401, "invalid_token")
             /\ resp.value.body.error_description = "Token has expired"

C5_Witness ==
    /\ validatedAt.has /\ validatedAt.value = RootExp + 300
    /\ Rejected(401, "invalid_token")

\* C6: for an active, unexpired token, a scope in which redsys.api does not
\* occur at all (the empty scope included) ends the request with 403
\* insufficient_scope; a scope that holds redsys.api as one of its tokens
\* leads to admission.
C6_ScopeDecides ==
    (pc = "done" /\ LastOk /\ RootActive /\ Unexpired) =>
        /\ ~Occurs(RootScope, "redsys.api") => Rejected(403, "insufficient_scope")
        /\ HasScopeToken(RootScope, "redsys.api") => Forwarded

C6_Witness ==
    /\ Rejected(403, "insufficient_scope") /\ LastOk /\ RootActive /\ Unexpired
    /\ RootScope = ""

\* C7: the scope check passes iff redsys.api equals one of the
\* whitespace-delimited tokens of the introspected scope; a scope that only
\* contains it inside a longer token does not pass.
C7_ScopeIsTokenMembership ==
    (pc = "done" /\ LastOk /\ RootActive /\ Unexpired) =>
        (Forwarded <=> HasScopeToken(RootScope, "redsys.api"))

\* C8: in a window, the request that is the N-th checked is admitted by the
\* limiter when N is the limit of its path class and the (N+1)-th is rejected
\* with 429 rate_limit_exceeded; a check made more than 60 seconds after the
\* window start resets the count and admits the request.
C8_LimitAndReset ==
    [][ (pc = "RateCheck" /\ pc' # "RateCheck") =>
           /\ (checked' = ClassLimit(req.path)) => pc' = "Extract"
           /\ (checked' = ClassLimit(req.path) + 1)
                 => (pc' = "done" /\ fcbCalls' = 1 /\ fccbCalls' = 0
                     /\ resp'.has /\ resp'.value.status = 429
                     /\ resp'.value.body.error = "rate_limit_exceeded")
           /\ (now - lastRequestTime_ > 60)
                 => (requestCount_' = 1 /\ lastRequestTime_' = now /\ pc' = "Extract")
      ]_vars

C8_Witness ==
    /\ Rejected(429, "rate_limit_exceeded") /\ req.path = "/api/v1/jobs"
    /\ checked = 101 /\ lastRequestTime_ > StartTime

\* C9: while fewer than 3 attempts have been made a failed attempt is followed
\* by another one; when the third attempt succeeds after two failures the
\* outcome of the request is the one its response determines, and when the
\* third attempt fails too the request ends with 401 invalid_token.
C9_RetryOutcome ==
    /\ (LastFailed /\ sent < 3) => pc = "Introspect"
    /\ (pc = "done" /\ sent = 3 /\ LastFailed) => Rejected(401, "invalid_token")
    /\ (pc = "done" /\ sent = 3 /\ LastOk) =>
          IF ~RootActive \/ ~Unexpired THEN Rejected(401, "invalid_token")
          ELSE IF ~Occurs(RootScope, "redsys.api") THEN Rejected(403, "insufficient_scope")
          ELSE Forwarded /\ getHeader(req, "X-User-ID") = Get(LastRoot, "sub", "")

C9_Witness ==
    /\ Forwarded /\ sent = 3 /\ LastOk

\* C10: a request whose introspection used up all attempts and a request whose
\* introspection returned active=false get the same response: status 401,
\* error invalid_token and one and the same error_description.
C10_FailureLooksInactive ==
    (pc = "done" /\ ((sent = 3 /\ LastFailed) \/ (LastOk /\ ~RootActive))) =>
        /\ resp.has
        /\ resp.value.status = 401
        /\ resp.value.body.error = "invalid_token"
        /\ resp.value.body.error_description = "Token is invalid or expired"

C10_Witness ==
    /\ Rejected(401, "invalid_token") /\ sent = 3 /\ LastFailed
    /\ lastResponse.value.kind = "transport"

-----------------------------------------------------------------------------
(* The stages of the pipeline in their order, the stage that decides a
   request and the outcome each stage gives when it decides. *)

StageOrder ==
    <<"PathBypass", "RateCheck", "Extract", "Introspect", "ExpirationCheck",
      "ScopeCheck", "Admit">>

DecidingStage ==
    IF req.path \in PublicPaths THEN 1
    ELSE IF checked > ClassLimit(req.path) THEN 2
    ELSE IF ~BearerForm(AuthOf(req)) THEN 3
    ELSE IF ~(LastOk /\ RootActive) THEN 4
    ELSE IF ~Unexpired THEN 5
    ELSE IF ~Occurs(RootScope, "redsys.api") THEN 6
    ELSE 7

OutcomeOfStage(n) ==
    IF n = 2 THEN Rejected(429, "rate_limit_exceeded")
    ELSE IF n = 3 THEN Rejected(401, "missing_token")
    ELSE IF n \in {4, 5} THEN Rejected(401, "invalid_token")
    ELSE IF n = 6 THEN Rejected(403, "insufficient_scope")
    ELSE Forwarded

\* C11: the stages run in the order bypass, rate limit, extraction,
\* introspection, expiration, scope, admission, none of them twice for one
\* request; the first stage that fails ends the request and gives its error:
\* a request over the limit without a token gets 429, an expired token
\* without the required scope gets 401.
C11_StageOrder ==
    /\ Len(stages) <= Len(StageOrder)
    /\ stages = SubSeq(StageOrder, 1, Len(stages))
    /\ pc = "done" =>
          /\ stages = SubSeq(StageOrder, 1, DecidingStage)
          /\ OutcomeOfStage(DecidingStage)

C11_Witness ==
    /\ Rejected(401, "invalid_token") /\ LastOk /\ RootActive
    /\ validatedAt.has /\ validatedAt.value >= RootExp + 300
    /\ RootScope = "other.scope"
    /\ stages = SubSeq(StageOrder, 1, 5)

\* C12: for every request exactly one of the two callbacks is called, and it
\* is called once: the continuation or the reject callback with an error
\* response, never both and never neither; none is called before the request
\* is decided.
C12_OneTerminalAction ==
    /\ fcbCalls + fccbCalls <= 1
    /\ pc = "done" => fcbCalls + fccbCalls = 1
    /\ pc \in {"RateCheck", "Extract", "Introspect", "ExpirationCheck",
                "ScopeCheck", "Admit"} => fcbCalls + fccbCalls = 0
    /\ fcbCalls = 1 <=> resp.has

C12_Witness ==
    /\ pc = "done" /\ fcbCalls = 1 /\ fccbCalls = 0 /\ resp.has
    /\ resp.value.status = 403 /\ sent = 2

IdentityHeaders == {"X-User-ID", "X-User-Scope", "X-Client-ID", "X-Token-Type"}

(* The headers the request carries now and did not arrive with. *)
AddedHeaders ==
    { h \in DOMAIN req.headers :
        h \notin DOMAIN inbound \/ req.headers[h] # inbound[h] }

\* C13: a request admitted through the whole pipeline is handed on with the
\* headers X-User-ID, X-User-Scope, X-Client-ID and X-Token-Type set to the
\* subject, scope, client id and token type of the introspection response;
\* no other header is added, none holds the raw token or its expiration, and
\* a request that is not admitted through the pipeline gets no header added.
C13_IdentityHeaders ==
    /\ AddedHeaders \subseteq IdentityHeaders
    /\ \A h \in AddedHeaders :
          /\ token.has /\ req.headers[h] # token.value
          /\ LastOk /\ req.headers[h] # ToString(RootExp)
    /\ (Forwarded /\ req.path \notin PublicPaths) =>
          /\ AddedHeaders = IdentityHeaders
          /\ req.headers["X-User-ID"] = Get(LastRoot, "sub", "")
          /\ req.headers["X-User-Scope"] = Get(LastRoot, "scope", "")
          /\ req.headers["X-Client-ID"] = Get(LastRoot, "client_id", "")
          /\ req.headers["X-Token-Type"] = Get(LastRoot, "token_type", "")
    /\ ~(Forwarded /\ req.path \notin PublicPaths) => AddedHeaders = {}

C13_Witness ==
    /\ Forwarded /\ req.path = "/login"
    /\ getHeader(req, "X-User-ID") = "user-1"
    /\ getHeader(req, "X-User-Scope") = "read redsys.api write"
    /\ getHeader(req, "X-Client-ID") = "client-1"
    /\ getHeader(req, "X-Token-Type") = "access_token"

ErrorPairs ==
    { <<429, "rate_limit_exceeded">>, <<401, "missing_token">>,
      <<401, "invalid_token">>, <<403, "insufficient_scope">> }

\* C14: the response of a rejection has one of the pairs 429
\* rate_limit_exceeded, 401 missing_token, 401 invalid_token, 403
\* insufficient_scope as its status and error code, and a JSON body with
\* exactly the keys error, error_description and timestamp; every rejection
\* has such a response, and no error response exists for a request that is
\* forwarded, bypass included.
C14_ErrorResponses ==
    /\ resp.has =>
          /\ <<resp.value.status, resp.value.body.error>> \in ErrorPairs
          /\ DOMAIN resp.value.body = {"error", "error_description", "timestamp"}
          /\ resp.value.contentType = "application/json"
          /\ fccbCalls = 0
    /\ fcbCalls > 0 => resp.has
    /\ fccbCalls > 0 => ~resp.has /\ fcbCalls = 0

C14_Witness ==
    /\ Rejected(403, "insufficient_scope") /\ RootScope = "other.scope"
    /\ DOMAIN resp.value.body = {"error", "error_description", "timestamp"}

\* C15: when checkRateLimit is run by several threads at once, no increment
\* of the count is lost: once k checks have been made in a window that was
\* not reset, and none is under way, the count is k.
C15_NoLostUpdate ==
    (\A th \in Threads : threads[th].pc = "idle") => requestCount_ = checked

\* C16: a request during which a stage raised an unexpected exception ends
\* with a rejection response, and its continuation is not invoked.
C16_FailsClosed ==
    (fault = "internal") =>
        /\ fccbCalls = 0
        /\ fcbCalls = 1 /\ resp.has

\* C17: an exception raised by logSecurityEvent or logTokenIntrospection is
\* swallowed: the request is decided as it would be had the call succeeded,
\* and no introspection attempt is made that would not have been made: none
\* after an attempt that was answered with a valid document.
C17_LogFaultHarmless ==
    (fault = "log") =>
        /\ pc # "faulted"
        /\ LastOk => pc # "Introspect"
        /\ pc = "done" =>
              /\ stages = SubSeq(StageOrder, 1, DecidingStage)
              /\ OutcomeOfStage(DecidingStage)

\* C18: every request that doFilter has started to serve is decided in the
\* end, also when the introspection server does not answer: each attempt is
\* given up after the configured timeout of 5000 ms.
C18_EveryRequestEnds ==
    (pc \in {"RateCheck", "Extract", "Introspect", "ExpirationCheck", "ScopeCheck",
             "Admit"}) ~> (pc = "done")

(* The limit of a path by its prefix. *)
PrefixLimit(path) ==
    IF Len(path) >= 8 /\ SubSeq(path, 1, 8) = "/api/v1/" THEN 100 ELSE 200

\* C19: the limiter applies the limit 100 to exactly the paths that start
\* with /api/v1/ and 200 to every other path: a checked request is admitted
\* iff the count after the increment is at most the limit of its path.
C19_LimitByPrefix ==
    [][ (pc = "RateCheck" /\ pc' # "RateCheck") =>
           (pc' = "Extract" <=> requestCount_' <= PrefixLimit(req.path)) ]_vars

(* The limit the limiter uses for a path. *)
AppliedLimit(path) == IF Occurs(path, "/api/v1/") THEN 100 ELSE 200

\* C20: the limiter counts per client address: a request is refused with 429
\* only if the requests checked in the window from its own address, itself
\* included, are more than the limit applied to its path; the requests of
\* other addresses play no part.
C20_PerClientAddress ==
    Rejected(429, "rate_limit_exceeded") =>
        checkedBy[req.peer] > AppliedLimit(req.path)

\* C21: the limit holds over a sliding window: in the 60 seconds that begin
\* at IntervalStart, wherever the window of the limiter starts, the limiter
\* admits at most 100 requests of the class of /api/v1/.
C21_SlidingWindow ==
    admits.recent <= 100

\* C21, amended: the limit holds for each window of the limiter, from one
\* reset of the count to the next: at most 100 requests of the class of
\* /api/v1/ are admitted in it; an interval of 60 seconds meets at most two
\* such windows, so at most 200 of them are admitted in it.
C21_PerLimiterWindow ==
    /\ admits.window <= 100
    /\ admits.recent <= 2 * 100

C21_Witness ==
    /\ admits.recent = 200 /\ admits.window = 100
    /\ now - IntervalStart <= 60 /\ lastRequestTime_ > IntervalStart

\* C22: no introspection result is kept from one request to the next: a
\* request starts with none, every request that gets past the extraction of
\* its token makes an introspection call of its own, and the token
\* information its checks use is the one of the last answer to its own calls.
C22_OwnIntrospection ==
    /\ pc \in {"RateCheck", "Extract"} =>
          (~tokenInfo.has /\ ~lastResponse.has /\ sent = 0)
    /\ pc = "Introspect" => ~tokenInfo.has
    /\ pc \in {"ExpirationCheck", "ScopeCheck", "Admit"} => (tokenInfo.has /\ sent >= 1)
    /\ (pc = "done" /\ req.path \notin PublicPaths /\ BearerForm(AuthOf(req))
          /\ checked <= ClassLimit(req.path)) => sent >= 1
    /\ tokenInfo.has =>
          /\ LastOk
          /\ tokenInfo.value.active = RootActive
          /\ tokenInfo.value.scope = RootScope
          /\ tokenInfo.value.exp = RootExp
          /\ tokenInfo.value.sub = Get(LastRoot, "sub", "")
          /\ tokenInfo.value.client_id = Get(LastRoot, "client_id", "")
          /\ tokenInfo.value.token_type = Get(LastRoot, "token_type", "")

C22_Witness ==
    /\ pc = "Introspect" /\ sent = 0 /\ ~tokenInfo.has
    /\ token.has /\ token.value = "abc123"
    /\ requestCount_ >= 2

(* The last attempt was answered with a status from 200 to 299 and a body
   that parses. *)
Answered2xx ==
    /\ lastResponse.has /\ lastResponse.value.kind = "response"
    /\ lastResponse.value.status \in 200..299 /\ lastResponse.value.body.parses

\* C23: an attempt answered with any status from 200 to 299 and a body that
\* parses is taken as the result and not retried; any other attempt
\* (transport failure, exception, other status, body that does not parse) is
\* retried while fewer than 3 attempts were made.
C23_RetryUnless2xx ==
    lastResponse.has =>
        IF Answered2xx THEN pc # "Introspect" /\ tokenInfo.has
        ELSE sent < 3 => pc = "Introspect"

\* C23, amended: an attempt answered with status 200 and a body that parses
\* is taken as the result and not retried; any other attempt, one answered
\* with another status from 201 to 299 included, is retried while fewer than
\* 3 attempts were made.
C23_RetryUnless200 ==
    lastResponse.has =>
        IF LastOk THEN pc # "Introspect" /\ tokenInfo.has
        ELSE sent < 3 => pc = "Introspect"

C23_Witness ==
    /\ lastResponse.has /\ lastResponse.value.kind = "response"
    /\ lastResponse.value.status = 201 /\ lastResponse.value.body.parses
    /\ pc = "Introspect" /\ sent = 2

(* The fields of the token information and the value each has when the
   answer does not give it. *)
ZeroValue ==
    [active |-> FALSE, scope |-> "", client_id |-> "", username |-> "",
     token_type |-> "", exp |-> 0, iat |-> 0, sub |-> "", aud |-> "", iss |-> ""]

\* C24: an answer with status 200 whose body parses but lacks fields gives,
\* on that attempt and without another one, a token information in which
\* every field the answer has holds the answer's value and every missing
\* field holds its zero value (false, the empty string, 0); an answer without
\* `active` ends the request with 401 invalid_token, as the first attempt
\* after exactly one attempt.
C24_MissingFieldsDefault ==
    LastOk =>
        /\ tokenInfo.has
        /\ attempt = sent - 1
        /\ \A f \in DOMAIN ZeroValue :
              tokenInfo.value[f] = IF f \in DOMAIN LastRoot THEN LastRoot[f]
                                   ELSE ZeroValue[f]
        /\ "active" \notin DOMAIN LastRoot =>
              /\ Rejected(401, "invalid_token")
              /\ stages = SubSeq(StageOrder, 1, 4)

C24_Witness ==
    /\ Rejected(401, "invalid_token") /\ LastOk /\ sent = 1
    /\ "active" \notin DOMAIN LastRoot
    /\ tokenInfo.has /\ ~tokenInfo.value.active /\ tokenInfo.value.sub = ""

\* C25: at most 3 introspection attempts are made for one request, whatever
\* way they fail, exceptions included; none is made after an attempt that
\* succeeded; and the call gives no result only when exactly 3 attempts were
\* made and failed.
C25_AttemptsBounded ==
    /\ sent <= 3
    /\ attempt <= sent
    /\ LastOk => (pc # "Introspect" /\ tokenInfo.has)
    /\ (sent >= 1 /\ pc # "Introspect" /\ ~tokenInfo.has) => (sent = 3 /\ LastFailed)
    /\ (sent = 3 /\ LastFailed) => (pc = "done" /\ ~tokenInfo.has)

C25_Witness ==
    /\ Rejected(401, "invalid_token") /\ sent = 3 /\ ~tokenInfo.has
    /\ lastResponse.value.kind = "throw"

\* C26: a token that is active and has exp = 0, given or left out by the
\* answer, counts as expired (the clock being at least 300): the request
\* ends with 401 invalid_token at the expiration check and is never handed
\* on.
C26_ZeroExpIsExpired ==
    (LastOk /\ RootActive /\ RootExp = 0) =>
        /\ fccbCalls = 0
        /\ pc \in {"ExpirationCheck", "done"}
        /\ pc = "done" =>
              /\ Rejected(401, "invalid_token")
              /\ resp.value.body.error_description = "Token has expired"
              /\ validatedAt.has /\ validatedAt.value >= 300

C26_Witness ==
    /\ Rejected(401, "invalid_token") /\ LastOk /\ RootActive
    /\ "exp" \notin DOMAIN LastRoot
    /\ validatedAt.has

(* String s holds w as a part. *)
Holds(s, w) ==
    \E i \in 1..(Len(s) - Len(w) + 1) : SubSeq(s, i, i + Len(w) - 1) = w

(* The token the request carries, "" if it carries none. *)
RawToken ==
    IF BearerForm(AuthOf(req)) THEN SubSeq(AuthOf(req), 8, Len(AuthOf(req))) ELSE ""

(* Every text written to the log for the current request. *)
LogTexts ==
    UNION { { secLog[i].event, secLog[i].ip, secLog[i].path, secLog[i].method,
              secLog[i].userAgent, secLog[i].details } : i \in 1..Len(secLog) }
    \cup (IF introLog.has THEN {introLog.value.error} ELSE {})

\* C27: no line written to the log for a request, SECURITY_EVENT or
\* TOKEN_INTROSPECTION, on success, on any rejection or on a failed attempt,
\* holds the bearer token of the request.
C27_TokenNeverLogged ==
    RawToken # "" => \A x \in LogTexts : ~Holds(x, RawToken)

C27_Witness ==
    /\ Forwarded /\ RawToken = "abc123" /\ sent = 3
    /\ Len(secLog) = 1 /\ secLog[1].event = "authentication_success"
    /\ introLog.has /\ introLog.value.success

(* The security event that reports the outcome of the current request. *)
EventOfOutcome ==
    IF Forwarded THEN {"authentication_success"}
    ELSE IF Rejected(429, "rate_limit_exceeded") THEN {"rate_limit_exceeded"}
    ELSE IF Rejected(401, "missing_token") THEN {"missing_token"}
    ELSE IF Rejected(401, "invalid_token") THEN {"invalid_token", "expired_token"}
    ELSE IF Rejected(403, "insufficient_scope") THEN {"insufficient_scope"}
    ELSE {}

\* C29: when the callback of a non-public request is invoked, the security
\* event of its decision is already written and it is the last line; a
\* rejection by the limiter is logged as rate_limit_exceeded with the
\* address of the client; authentication_success is logged iff the request
\* went through the whole pipeline, and nothing is logged for a public path.
C29_DecisionsLogged ==
    /\ req.path \in PublicPaths => secLog = <<>>
    /\ (fcbCalls + fccbCalls > 0 /\ req.path \notin PublicPaths) =>
          /\ Len(secLog) >= 1
          /\ loggedAtCallback = Len(secLog)
          /\ secLog[Len(secLog)].event \in EventOfOutcome
          /\ secLog[Len(secLog)].ip = req.peer
    /\ Rejected(429, "rate_limit_exceeded") =>
          \E i \in 1..Len(secLog) :
              /\ secLog[i].event = "rate_limit_exceeded"
              /\ Holds(secLog[i].details, req.peer)
    /\ (\E i \in 1..Len(secLog) : secLog[i].event = "authentication_success")
          <=> (Forwarded /\ req.path \notin PublicPaths)

C29_Witness ==
    /\ Rejected(429, "rate_limit_exceeded") /\ Len(secLog) = 2
    /\ loggedAtCallback = 2
    /\ secLog[1].details = "Rate limit exceeded for IP: 10.0.0.1"
    /\ secLog[2].details = "Too many requests"

\* C28: extractToken gives a token iff the Authorization header is there,
\* is not empty, starts with `Bearer ` in exactly this spelling and goes on
\* with 1 to 1000 characters (1000 taken, 1001 refused); the token is the
\* header without its first 7 characters; in every other case it gives no
\* token.
C28_ExtractToken ==
    LET h == AuthOf(req) IN
    /\ token.has <=>
          /\ "Authorization" \in DOMAIN req.headers
          /\ h # ""
          /\ Len(h) >= 7 /\ SubSeq(h, 1, 7) = "Bearer "
          /\ Len(h) - 7 >= 1 /\ Len(h) - 7 <= 1000
    /\ token.has =>
          /\ h = "Bearer " \o token.value
          /\ Len(token.value) = Len(h) - 7

C28_Witness ==
    /\ token.has /\ Len(token.value) = 1000
    /\ Len(AuthOf(req)) = 1007

\* C30: requests being served one after the other, after every check of the
\* limiter the count is the number of non-public requests checked since the
\* window started, whatever their path class and whatever became of them;
\* a check resets the count and sets the window start to the present time
\* exactly when it finds more than 60 seconds gone since the window start;
\* no other stage changes the count; and the limiter admits the request iff
\* the count, the request included, is at most the limit of its path class.
C30_SharedCount ==
    [][ /\ requestCount_ = checked
        /\ pc # "RateCheck" =>
              (requestCount_' = requestCount_ /\ lastRequestTime_' = lastRequestTime_)
        /\ (pc = "RateCheck" /\ pc' # "RateCheck") =>
              /\ requestCount_' = checked'
              /\ IF now - lastRequestTime_ > 60
                 THEN requestCount_' = 1 /\ lastRequestTime_' = now
                 ELSE /\ requestCount_' = requestCount_ + 1
                      /\ lastRequestTime_' = lastRequestTime_
              /\ (pc' = "Extract") <=> (requestCount_' <= ClassLimit(req.path))
      ]_vars

C30_Witness ==
    /\ pc = "Extract" /\ req.path = "/login" /\ requestCount_ = 150
    /\ checked = 150 /\ lastRequestTime_ = StartTime + 61

\* C31: only the RateCheck stage changes the state of the rate limiter, the
\* count and the window start: the arrival of a request, a bypassed one
\* included, and the Extract, Introspect, ExpirationCheck, ScopeCheck and
\* Admit stages with the log lines and error responses they write leave both
\* as they were, and the RateCheck stage of a request adds exactly one to the
\* count, after setting it to zero if it moves the window start.
C31_LimiterFrame ==
    [][ LET limiter == <<requestCount_, lastRequestTime_>> IN
        /\ pc \in {"idle", "done"} => limiter' = limiter
        /\ pc \in {"Extract", "Introspect", "ExpirationCheck", "ScopeCheck", "Admit"}
              => limiter' = limiter
        /\ (pc # "RateCheck" /\ (secLog' # secLog \/ introLog' # introLog \/ resp' # resp))
              => limiter' = limiter
        /\ pc = "RateCheck" =>
              /\ lastRequestTime_' \in {lastRequestTime_, now}
              /\ requestCount_' =
                    (IF lastRequestTime_' = lastRequestTime_ THEN requestCount_ ELSE 0) + 1
      ]_vars

C31_Witness ==
    /\ pc = "done" /\ stages = <<"PathBypass">> /\ fccbCalls = 1
    /\ requestCount_ = 2 /\ lastRequestTime_ = StartTime + 61

\* C32: an introspection request is sent only for a request to a non-public
\* path that has passed RateCheck within the limit of its path class and
\* Extract with a bearer token, and that has not been answered yet; a
\* request that ends bypassed, refused by the rate limiter or refused for a
\* missing or malformed bearer token ends with no introspection request sent.
C32_IntrospectAfterExtract ==
    [][ /\ sent' > sent =>
              /\ Len(stages) >= 3
              /\ SubSeq(stages, 1, 3) = <<"PathBypass", "RateCheck", "Extract">>
              /\ req' = req /\ req.path \notin PublicPaths
              /\ checked' = checked /\ checked <= ClassLimit(req.path)
              /\ BearerForm(AuthOf(req)) /\ token.has
              /\ fcbCalls = 0 /\ fccbCalls = 0
        /\ (pc' = "done" /\ Len(stages') <= 3) =>
              /\ sent' = 0 /\ ~lastResponse'.has /\ ~introLog'.has
              /\ \/ stages' = <<"PathBypass">> /\ req'.path \in PublicPaths
                 \/ stages' = <<"PathBypass", "RateCheck">>
                      /\ resp'.has /\ resp'.value.status = 429
                 \/ stages' = <<"PathBypass", "RateCheck", "Extract">>
                      /\ resp'.has /\ resp'.value.body.error = "missing_token"
                      /\ ~BearerForm(AuthOf(req'))
      ]_vars

C32_Witness ==
    /\ Rejected(429, "rate_limit_exceeded") /\ BearerForm(AuthOf(req))
    /\ sent = 0 /\ ~lastResponse.has

(* The field of the introspection response that each identity header is
   filled from. *)
IdentityField ==
    ("X-User-ID" :> "sub") @@ ("X-User-Scope" :> "scope")
      @@ ("X-Client-ID" :> "client_id") @@ ("X-Token-Type" :> "token_type")

\* C33: whenever a request is handed to the downstream handler, on the
\* admitted path or on a bypass path, each of the headers X-User-ID,
\* X-User-Scope, X-Client-ID and X-Token-Type that it carries holds the value
\* of a successful introspection of this request's token, and never the value
\* the client sent in that header.
C33_IdentityFromIntrospection ==
    fccbCalls > 0 =>
        \A h \in IdentityHeaders \cap DOMAIN req.headers :
            /\ LastOk /\ RootActive
            /\ req.headers[h] = Get(LastRoot, IdentityField[h], "")
            /\ h \in DOMAIN inbound => req.headers[h] # inbound[h]

(* The direct call of the limiter made in this step returned false. *)
RefusedNow ==
    secLog' # <<>> /\ secLog'[1].event = "rate_limit_exceeded"

\* C34: calls of the limiter being made one after the other, once a call for
\* a request of a path class has been refused in the current window, every
\* later call for a request of that path class that does not restart the
\* window is refused too; a call for that class is admitted again only when
\* more than 60 seconds have passed since the window start, and that call
\* restarts the window.
C34_RefusalMonotone ==
    [][ (now' = now /\ \E p \in admits.refused : ClassLimit(p) = ClassLimit(req'.path)) =>
            /\ lastRequestTime_' = lastRequestTime_ => RefusedNow
            /\ now - lastRequestTime_ <= 60 => RefusedNow
            /\ ~RefusedNow =>
                  /\ now - lastRequestTime_ > 60
                  /\ lastRequestTime_' = now /\ requestCount_' = 1
      ]_vars

C34_Witness ==
    /\ req.path = "/api/v1/jobs" /\ secLog # <<>>
    /\ admits.refused = {"/api/v1/jobs"}
    /\ requestCount_ = 150 /\ admits.window = 148
====
